---- MODULE Spec2Model ----
(***************************************************************************)
(* Function discovery for an MS-DOS MZ executable                          *)
(* (re/scripts/discover_functions.py): header parsing, prologue scan,      *)
(* call sweep, candidate merging, interrupt attribution, size estimation   *)
(* and export of the symbol catalog.                                       *)
(*                                                                         *)
(* The image is a sequence of bytes 0..255; Python offset k is data[k+1].  *)
(***************************************************************************)
EXTENDS Integers, Sequences, FiniteSets, TLC

VARIABLES
    exe_exists,      \* main: exe_path.exists()
    data,            \* self.data, the bytes of the file
    pc,              \* position in main / analyze
    e_cparhdr,       \* header size in paragraphs
    e_ip,            \* initial IP
    e_cs,            \* initial CS
    code_start,      \* self.code_start
    entry_point,     \* self.entry_point
    functions,       \* self.functions: address -> FunctionInfo
    fn_keys,         \* insertion order of the keys of self.functions
    call_sources,    \* self.call_sources: target -> list of call sites
    prologues,       \* find_prologue_patterns: the set being built
    pat,             \* find_prologue_patterns: index of the pattern scanned next
    call_targets,    \* find_call_targets: the set being built
    i,               \* position of the running sweep (call or interrupt)
    high_confidence, \* analyze: prologues & call_targets
    todo,            \* analyze: addresses the running merge loop has not visited
    int_usage,       \* find_interrupt_handlers: function -> list of vectors
    symbols_json,    \* <<>> while no artifact is written, else <<document>>
    pass,            \* number of the running invocation of main
    prev_json,       \* artifact of the previous invocation of main
    args,            \* refresh_artifacts.main: the parsed command line
    stage,           \* refresh_artifacts.main: the step that runs next
    log_steps,       \* refresh_artifacts.main: the run log being built
    raised,          \* refresh_artifacts.main: the exception in flight, "" if none
    log_files        \* the payloads write_log has written, oldest first

vars == <<exe_exists, data, pc, e_cparhdr, e_ip, e_cs, code_start, entry_point,
          functions, fn_keys, call_sources, prologues, pat, call_targets, i,
          high_confidence, todo, int_usage, symbols_json, pass, prev_json,
          args, stage, log_steps, raised, log_files>>

\* the state of the refresh pipeline (re/scripts/refresh_artifacts.py)
refresh_vars == <<args, stage, log_steps, raised, log_files>>

\* the state of the function discovery (re/scripts/discover_functions.py)
discover_vars == <<exe_exists, data, pc, e_cparhdr, e_ip, e_cs, code_start,
                   entry_point, functions, fn_keys, call_sources, prologues, pat,
                   call_targets, i, high_confidence, todo, int_usage, symbols_json,
                   pass, prev_json>>

(***************************************************************************)
(* Bounds of the model                                                     *)
(***************************************************************************)
MaxInstr == 3       \* instructions in a composed code region
MaxInts == 2        \* interrupt instructions in an interrupt-only code region
MaxCalls == 12      \* call sites aimed at one target
MaxPasses == 2      \* invocations of main over the same file

(***************************************************************************)
(* Program constants                                                       *)
(***************************************************************************)
CALL_NEAR_REL16 == 232   \* 0xE8
CALL_FAR_PTR == 154      \* 0x9A
CALL_RM16 == 255         \* 0xFF
RET_NEAR == 195          \* 0xC3
RET_NEAR_IMM == 194      \* 0xC2
RET_FAR == 203           \* 0xCB
RET_FAR_IMM == 202       \* 0xCA
INT_IMM8 == 205          \* 0xCD
MaxSpan == 65535         \* 0xFFFF
MaxCallers == 10         \* callers[:10]
HeaderBytes == 26        \* last header field read: 2 bytes at offset 24

PROLOGUE_PATTERNS ==
    << <<85, 139, 236>>,    \* 55 8B EC
       <<85, 137, 229>>,    \* 55 89 E5
       <<85, 139, 229>>,    \* 55 8B E5
       <<200>>,             \* C8
       <<85>> >>            \* 55

PushBpFollowers == {139, 137, 131, 86, 87, 30, 6}  \* 8B 89 83 56 57 1E 06

RetOpcodes == {RET_NEAR, RET_NEAR_IMM, RET_FAR, RET_FAR_IMM}

(***************************************************************************)
(* Formatting: f"{n:X}", f"{n:02X}", f"{n:05X}"                            *)
(***************************************************************************)
HexDigits == <<"0", "1", "2", "3", "4", "5", "6", "7",
               "8", "9", "A", "B", "C", "D", "E", "F">>

RECURSIVE Hex(_)
Hex(n) == IF n < 16 THEN HexDigits[n + 1]
          ELSE Hex(n \div 16) \o HexDigits[(n % 16) + 1]

RECURSIVE HexWidth(_)
HexWidth(n) == IF n < 16 THEN 1 ELSE 1 + HexWidth(n \div 16)

RECURSIVE Zeros(_)
Zeros(k) == IF k <= 0 THEN "" ELSE "0" \o Zeros(k - 1)

HexPad(n, w) == Zeros(w - HexWidth(n)) \o Hex(n)

AddrStr(n) == "0x" \o Hex(n)
IntStr(n) == "0x" \o HexPad(n, 2)
FunName(n) == "FUN_" \o HexPad(n, 5)

(***************************************************************************)
(* Reading the image                                                       *)
(***************************************************************************)
Min(a, b) == IF a < b THEN a ELSE b

U16(off) == data[off + 1] + 256 * data[off + 2]          \* unpack_from('<H')
Signed16AsUnsigned(u) == u                               \* '<H' read for '<h'
Signed16(u) == IF u >= 32768 THEN u - 65536 ELSE u       \* '<h' from '<H'

CodeLen == IF code_start >= Len(data) THEN 0 ELSE Len(data) - code_start
CodeAt(k) == data[code_start + k + 1]                    \* code[k]

\* data[a:b] for 0 <= a
Slice(a, b) == IF a >= Min(b, Len(data)) THEN <<>>
               ELSE SubSeq(data, a + 1, Min(b, Len(data)))

RECURSIVE SortedSeq(_)
SortedSeq(S) == IF S = {} THEN <<>>
                ELSE LET m == CHOOSE x \in S : \A y \in S : x <= y
                     IN <<m>> \o SortedSeq(S \ {m})

Take(s, n) == IF Len(s) <= n THEN s ELSE SubSeq(s, 1, n)  \* s[:n]

Contains(s, x) == \E k \in 1..Len(s) : s[k] = x           \* x in s

(***************************************************************************)
(* Input images                                                            *)
(***************************************************************************)
RECURSIVE ZeroBytes(_)
ZeroBytes(k) == IF k <= 0 THEN <<>> ELSE <<0>> \o ZeroBytes(k - 1)

LE16(v) == <<v % 256, (v \div 256) % 256>>

\* A 32-byte header area: magic, e_cparhdr at 8, e_ip at 20, e_cs at 22
HeaderArea(magic, hp, ip, cs) ==
    magic \o ZeroBytes(6) \o LE16(hp) \o ZeroBytes(10) \o LE16(ip) \o LE16(cs)
          \o ZeroBytes(8)

MZ == <<77, 90>>

Instructions ==
    { <<85, 139, 236>>,        \* push bp; mov bp, sp
      <<85>>,                  \* push bp
      <<232, 250, 255>>,       \* call $-3  (rel16 = -6)
      <<232, 0, 0>>,           \* call $+3  (rel16 = 0)
      <<154, 3, 0, 2, 0>>,     \* call far 0002:0003
      <<195>>,                 \* ret
      <<205, 16>>,             \* int 10h
      <<255>> }                \* first byte of an indirect call

RECURSIVE Programs(_)
Programs(n) == IF n = 0 THEN {<<>>}
               ELSE LET P == Programs(n - 1)
                    IN P \cup {p \o t : p \in P, t \in Instructions}

Vectors == {16, 33, 22, 8, 28, 51, 128, 129, 5}

RECURSIVE IntPrograms(_)
IntPrograms(n) == IF n = 0 THEN {<<>>}
                  ELSE LET P == IntPrograms(n - 1)
                       IN P \cup {p \o <<INT_IMM8, v>> : p \in P, v \in Vectors}

\* k near calls, all to the address `to`, the first at absolute offset `at`
RECURSIVE CallsTo(_, _, _)
CallsTo(k, at, to) ==
    IF k = 0 THEN <<>>
    ELSE <<CALL_NEAR_REL16>> \o LE16((to - (at + 3)) % 65536) \o CallsTo(k - 1, at + 3, to)

\* composed code regions behind a two-paragraph header, entry at or after code start
ComposedImages ==
    { HeaderArea(MZ, 2, ip, 2) \o p : ip \in {0, 3}, p \in Programs(MaxInstr) }

\* interrupt-only code regions: an entry function at 32, a called one at 35
InterruptImages ==
    { HeaderArea(MZ, 2, 0, 2) \o <<CALL_NEAR_REL16, 0, 0>> \o p \o <<RET_NEAR, 0, 0>> :
          p \in IntPrograms(MaxInts) }

\* many call sites for one target: the code after the calls, or the entry
ManyCallerImages ==
    { HeaderArea(MZ, 2, 0, 2) \o CallsTo(k, 32 + off, IF own THEN 32 + off + 3 * k ELSE 32)
          \o <<85, 139, 236, 195>> :
          k \in 0..MaxCalls, own \in BOOLEAN, off \in {0} }

\* header variety: magic, header size, entry segment and offset
HeaderImages ==
    { HeaderArea(magic, hp, ip, cs) \o body :
          magic \in {MZ, <<90, 77>>, <<77, 0>>},
          hp \in 0..3, ip \in {0, 1}, cs \in 0..3,
          body \in { <<>>, <<85, 139, 236, 232, 250, 255, 195>>,
                     <<144, 144, 144, 144, 144, 144, 144, 144,
                       144, 144, 144, 144, 144, 144, 144, 144, 195>> } }

\* files shorter than the header
ShortImages ==
    { <<>>, <<77>>, MZ, <<90, 77>>, SubSeq(HeaderArea(MZ, 2, 0, 2), 1, 25),
      SubSeq(HeaderArea(MZ, 0, 0, 0), 1, 26) }

RECURSIVE Nops(_)
Nops(k) == IF k <= 0 THEN <<>> ELSE <<144>> \o Nops(k - 1)

\* code start and entry at 32, a prologue at 32, a return at 40 and a near call
\* at 50 that resolves to 32
ScenarioImage ==
    HeaderArea(MZ, 2, 0, 2) \o <<85, 139, 236>> \o Nops(5) \o <<195>> \o Nops(9)
        \o CallsTo(1, 50, 32) \o <<195>>

\* calls whose target falls outside the file, and the widest displacements
StrayCalls ==
    { <<232, 0, 1>>,             \* call $+259: beyond the end of the file
      <<232, 0, 255>>,           \* call $-253: before the start of the file
      <<232, 255, 127>>,         \* rel16 = 32767
      <<232, 0, 128>>,           \* rel16 = -32768
      <<154, 15, 0, 255, 255>>,  \* call far FFFF:000F
      <<154, 5, 0, 0, 0>> }      \* call far 0000:0005, inside the header

StrayCallImages ==
    { HeaderArea(MZ, 2, 0, 2) \o lead \o c \o tail :
          lead \in {<<>>, <<255>>}, c \in StrayCalls,
          tail \in {<<195>>, <<85, 139, 236, 195>>} }

\* a far call opcode with fewer than four operand bytes left in the file
TruncatedFarImages ==
    { HeaderArea(MZ, 2, 0, 2) \o Nops(k) \o <<154, 3, 0, 2>> : k \in 0..2 }

\* header sizes that use the high byte of e_cparhdr
WideHeaderImages ==
    { HeaderArea(MZ, hp, 0, 2) \o <<85, 139, 236, 195>> : hp \in {256, 258} }

\* entry at 35: an interrupt before it, a return at 35 and an interrupt behind it
GapImage == HeaderArea(MZ, 2, 3, 2) \o <<205, 33, 144, 195, 205, 16, 144>>

Images == ComposedImages \cup InterruptImages \cup ManyCallerImages
          \cup HeaderImages \cup ShortImages \cup {ScenarioImage}
          \cup StrayCallImages \cup TruncatedFarImages \cup WideHeaderImages
          \cup {GapImage}

(***************************************************************************)
(* Records                                                                 *)
(***************************************************************************)
\* FunctionInfo(name, entry_linear, callers=..., notes=...) with the defaults
FunctionInfo(name, entry_linear, callers, notes) ==
    [ name |-> name, entry_linear |-> entry_linear, size_bytes |-> 0,
      stack_frame_size |-> 0, subsystem |-> "unknown", callers |-> callers,
      int_usage |-> <<>>, source_recording_id |-> "", notes |-> notes ]

\* d[k] = v on a dict held as a function
Put(d, k, v) == [x \in DOMAIN d \cup {k} |-> IF x = k THEN v ELSE d[x]]

\* key order of a dict after d[k] = v
KeysPut(keys, d, k) == IF k \in DOMAIN d THEN keys ELSE Append(keys, k)

EmptyDict == [x \in {} |-> 0]

\* the newest call site put in front of the list
AddCallSourceInFront(cs, target, source) ==
    Put(cs, target, IF target \in DOMAIN cs THEN <<source>> \o cs[target]
                    ELSE <<source>>)

\* self.call_sources after an accepted call from source to target
AddCallSource(cs, target, source) ==
    Put(cs, target, IF target \in DOMAIN cs THEN Append(cs[target], source)
                    ELSE <<source>>)

\* [f"0x{c:X}" for c in self.call_sources.get(addr, [])]
CallerStrs(addr) ==
    IF addr \in DOMAIN call_sources
    THEN [k \in 1..Len(call_sources[addr]) |-> AddrStr(call_sources[addr][k])]
    ELSE <<>>

\* the refresh pipeline is not running
NoArgs ==
    [ dry_run |-> FALSE, skip_ghidra |-> FALSE, skip_binja |-> FALSE,
      skip_validate |-> FALSE, capture_run |-> FALSE, capture_macro |-> FALSE,
      skip_trace_index |-> FALSE, skip_coverage |-> FALSE,
      skip_hlil_publish |-> FALSE ]

(***************************************************************************)
(* main, __init__, _parse_mz_header                                        *)
(***************************************************************************)
Init ==
    /\ \/ exe_exists = TRUE /\ data \in Images
       \/ exe_exists = FALSE /\ data = <<>>
    /\ pc = "start"
    /\ e_cparhdr = 0 /\ e_ip = 0 /\ e_cs = 0
    /\ code_start = 0 /\ entry_point = 0
    /\ functions = EmptyDict /\ fn_keys = <<>>
    /\ call_sources = EmptyDict
    /\ prologues = {} /\ pat = 1
    /\ call_targets = {} /\ i = 0
    /\ high_confidence = {} /\ todo = {}
    /\ int_usage = EmptyDict
    /\ symbols_json = <<>>
    /\ pass = 1 /\ prev_json = <<>>
    /\ args = NoArgs /\ stage = "idle"
    /\ log_steps = <<>> /\ raised = "" /\ log_files = <<>>

\* only the first byte of the magic is compared
BadMagicFirstByte == Take(data, 1) # <<77>>

\* self.data[:2] != b'MZ'
BadMagic == Take(data, 2) # MZ

\* main: the file is missing, return 1
MainMissing ==
    /\ pc = "start" /\ ~exe_exists
    /\ pc' = "exit1"
    /\ UNCHANGED refresh_vars
    /\ UNCHANGED <<exe_exists, data, e_cparhdr, e_ip, e_cs, code_start, entry_point,
                   functions, fn_keys, call_sources, prologues, pat, call_targets, i,
                   high_confidence, todo, int_usage, symbols_json, pass, prev_json>>

\* DOSExeAnalyzer(exe_path): the magic check raises ValueError
ParseBadMagic ==
    /\ pc = "start" /\ exe_exists /\ BadMagic
    /\ pc' = "ValueError"
    /\ UNCHANGED refresh_vars
    /\ UNCHANGED <<exe_exists, data, e_cparhdr, e_ip, e_cs, code_start, entry_point,
                   functions, fn_keys, call_sources, prologues, pat, call_targets, i,
                   high_confidence, todo, int_usage, symbols_json, pass, prev_json>>

\* DOSExeAnalyzer(exe_path): a header field lies beyond the buffer, struct.error
ParseShort ==
    /\ pc = "start" /\ exe_exists /\ ~BadMagic /\ Len(data) < HeaderBytes
    /\ pc' = "struct.error"
    /\ UNCHANGED refresh_vars
    /\ UNCHANGED <<exe_exists, data, e_cparhdr, e_ip, e_cs, code_start, entry_point,
                   functions, fn_keys, call_sources, prologues, pat, call_targets, i,
                   high_confidence, todo, int_usage, symbols_json, pass, prev_json>>

\* the paragraph count taken as a byte count
HeaderSizeUnscaled(paragraphs) == paragraphs

\* self.header_size = self.e_cparhdr * 16
HeaderSize(paragraphs) == paragraphs * 16

\* DOSExeAnalyzer(exe_path): the header parses
ParseHeader ==
    /\ pc = "start" /\ exe_exists /\ ~BadMagic /\ Len(data) >= HeaderBytes
    /\ e_cparhdr' = U16(8)
    /\ e_ip' = U16(20)
    /\ e_cs' = U16(22)
    /\ code_start' = HeaderSize(U16(8))
    /\ entry_point' = U16(22) * 16 + U16(20)
    /\ functions' = EmptyDict /\ fn_keys' = <<>>
    /\ call_sources' = EmptyDict
    /\ pc' = "analyze"
    /\ UNCHANGED refresh_vars
    /\ UNCHANGED <<exe_exists, data, prologues, pat, call_targets, i,
                   high_confidence, todo, int_usage, symbols_json, pass, prev_json>>

(***************************************************************************)
(* analyze, step 1: the entry record                                       *)
(***************************************************************************)
AddEntry ==
    /\ pc = "analyze"
    /\ functions' = Put(functions, entry_point,
                        FunctionInfo("entry", AddrStr(entry_point), <<>>,
                                     "Program entry point"))
    /\ fn_keys' = KeysPut(fn_keys, functions, entry_point)
    /\ prologues' = {} /\ pat' = 1
    /\ pc' = "prologues"
    /\ UNCHANGED refresh_vars
    /\ UNCHANGED <<exe_exists, data, e_cparhdr, e_ip, e_cs, code_start, entry_point,
                   call_sources, call_targets, i, high_confidence, todo, int_usage,
                   symbols_json, pass, prev_json>>

(***************************************************************************)
(* find_prologue_patterns: one step per pattern                            *)
(***************************************************************************)
\* code[idx:idx+len(pattern)] == pattern
MatchAt(idx, pattern) ==
    /\ idx + Len(pattern) <= CodeLen
    /\ \A k \in 1..Len(pattern) : CodeAt(idx + k - 1) = pattern[k]

\* the bare PUSH BP is kept unless a following byte exists and is not a follower
AcceptMatch(idx, pattern) ==
    IF pattern = <<85>>
    THEN ~(idx + 1 < CodeLen /\ CodeAt(idx + 1) \notin PushBpFollowers)
    ELSE TRUE

\* the matches of a pattern that the call sweep has not claimed yet
PatternHitsUnclaimed(pattern) ==
    { code_start + idx : idx \in { j \in 0..(CodeLen - 1) :
                                     MatchAt(j, pattern) /\ AcceptMatch(j, pattern) } }
    \ call_targets

PatternHits(pattern) ==
    { code_start + idx : idx \in { j \in 0..(CodeLen - 1) :
                                     MatchAt(j, pattern) /\ AcceptMatch(j, pattern) } }

PrologueStep ==
    /\ pc = "prologues" /\ pat <= Len(PROLOGUE_PATTERNS)
    /\ prologues' = prologues \cup PatternHits(PROLOGUE_PATTERNS[pat])
    /\ pat' = pat + 1
    /\ UNCHANGED refresh_vars
    /\ UNCHANGED <<exe_exists, data, pc, e_cparhdr, e_ip, e_cs, code_start,
                   entry_point, functions, fn_keys, call_sources, call_targets, i,
                   high_confidence, todo, int_usage, symbols_json, pass, prev_json>>

PrologueDone ==
    /\ pc = "prologues" /\ pat > Len(PROLOGUE_PATTERNS)
    /\ pc' = "calls"
    /\ call_targets' = {} /\ i' = 0
    /\ UNCHANGED refresh_vars
    /\ UNCHANGED <<exe_exists, data, e_cparhdr, e_ip, e_cs, code_start, entry_point,
                   functions, fn_keys, call_sources, prologues, pat,
                   high_confidence, todo, int_usage, symbols_json, pass, prev_json>>

(***************************************************************************)
(* find_call_targets: one step per iteration of the sweep                  *)
(***************************************************************************)
InFile(target) == 0 <= target /\ target < Len(data)

\* CALL rel16 at code[k]: code_start + k + 3 + rel16
NearTarget(k) == code_start + k + 3 + Signed16(CodeAt(k + 1) + 256 * CodeAt(k + 2))

\* CALL ptr16:16 at code[k]: segment * 16 + offset
FarTarget(k) ==
    (CodeAt(k + 3) + 256 * CodeAt(k + 4)) * 16 + (CodeAt(k + 1) + 256 * CodeAt(k + 2))

\* a rejected near call passed by one byte only
CallNearRejectedStepsOne ==
    /\ pc = "calls" /\ i < CodeLen - 3
    /\ CodeAt(i) = CALL_NEAR_REL16
    /\ IF i + 3 <= CodeLen /\ InFile(NearTarget(i))
       THEN /\ call_targets' = call_targets \cup {NearTarget(i)}
            /\ call_sources' = AddCallSource(call_sources, NearTarget(i), code_start + i)
            /\ i' = i + 3
       ELSE /\ UNCHANGED <<call_targets, call_sources>>
            /\ i' = i + 1
    /\ UNCHANGED refresh_vars
    /\ UNCHANGED <<exe_exists, data, pc, e_cparhdr, e_ip, e_cs, code_start,
                   entry_point, functions, fn_keys, prologues, pat,
                   high_confidence, todo, int_usage, symbols_json, pass, prev_json>>

\* a sweep that examines every position where a near call still fits
CallNearToTheEnd ==
    /\ pc = "calls" /\ i <= CodeLen - 3
    /\ CodeAt(i) = CALL_NEAR_REL16
    /\ IF i + 3 <= CodeLen /\ InFile(NearTarget(i))
       THEN /\ call_targets' = call_targets \cup {NearTarget(i)}
            /\ call_sources' = AddCallSource(call_sources, NearTarget(i), code_start + i)
       ELSE UNCHANGED <<call_targets, call_sources>>
    /\ i' = i + 3
    /\ UNCHANGED refresh_vars
    /\ UNCHANGED <<exe_exists, data, pc, e_cparhdr, e_ip, e_cs, code_start,
                   entry_point, functions, fn_keys, prologues, pat,
                   high_confidence, todo, int_usage, symbols_json, pass, prev_json>>

CallNear ==
    /\ pc = "calls" /\ i < CodeLen - 3
    /\ CodeAt(i) = CALL_NEAR_REL16
    /\ IF i + 3 <= CodeLen /\ InFile(NearTarget(i))
       THEN /\ call_targets' = call_targets \cup {NearTarget(i)}
            /\ call_sources' = AddCallSource(call_sources, NearTarget(i), code_start + i)
       ELSE UNCHANGED <<call_targets, call_sources>>
    /\ i' = i + 3
    /\ UNCHANGED refresh_vars
    /\ UNCHANGED <<exe_exists, data, pc, e_cparhdr, e_ip, e_cs, code_start,
                   entry_point, functions, fn_keys, prologues, pat,
                   high_confidence, todo, int_usage, symbols_json, pass, prev_json>>

CallFar ==
    /\ pc = "calls" /\ i < CodeLen - 3
    /\ CodeAt(i) = CALL_FAR_PTR
    /\ IF i + 5 <= CodeLen /\ InFile(FarTarget(i))
       THEN /\ call_targets' = call_targets \cup {FarTarget(i)}
            /\ call_sources' = AddCallSource(call_sources, FarTarget(i), code_start + i)
       ELSE UNCHANGED <<call_targets, call_sources>>
    /\ i' = i + 5
    /\ UNCHANGED refresh_vars
    /\ UNCHANGED <<exe_exists, data, pc, e_cparhdr, e_ip, e_cs, code_start,
                   entry_point, functions, fn_keys, prologues, pat,
                   high_confidence, todo, int_usage, symbols_json, pass, prev_json>>

CallIndirect ==
    /\ pc = "calls" /\ i < CodeLen - 3
    /\ CodeAt(i) = CALL_RM16
    /\ i' = i + 1
    /\ UNCHANGED refresh_vars
    /\ UNCHANGED <<exe_exists, data, pc, e_cparhdr, e_ip, e_cs, code_start,
                   entry_point, functions, fn_keys, call_sources, prologues, pat,
                   call_targets, high_confidence, todo, int_usage, symbols_json,
                   pass, prev_json>>

CallOther ==
    /\ pc = "calls" /\ i < CodeLen - 3
    /\ CodeAt(i) \notin {CALL_NEAR_REL16, CALL_FAR_PTR, CALL_RM16}
    /\ i' = i + 1
    /\ UNCHANGED refresh_vars
    /\ UNCHANGED <<exe_exists, data, pc, e_cparhdr, e_ip, e_cs, code_start,
                   entry_point, functions, fn_keys, call_sources, prologues, pat,
                   call_targets, high_confidence, todo, int_usage, symbols_json,
                   pass, prev_json>>

\* every prologue match is treated as a candidate
HighConfidenceUnion == prologues \cup call_targets

\* analyze step 4: prologues & call_targets
HighConfidence == prologues \cap call_targets

\* the sweep returns; analyze step 4 forms the high-confidence set
CallDone ==
    /\ pc = "calls" /\ ~(i < CodeLen - 3)
    /\ high_confidence' = HighConfidence
    /\ todo' = HighConfidence
    /\ pc' = "merge_high"
    /\ UNCHANGED refresh_vars
    /\ UNCHANGED <<exe_exists, data, e_cparhdr, e_ip, e_cs, code_start, entry_point,
                   functions, fn_keys, call_sources, prologues, pat, call_targets, i,
                   int_usage, symbols_json, pass, prev_json>>

(***************************************************************************)
(* analyze, step 4: the two merge loops; a set is visited in any order     *)
(***************************************************************************)
\* the loop body without the test for an existing record
MergeOneOverwrite(addr, notes) ==
    IF addr >= code_start
    THEN /\ functions' = Put(functions, addr,
                             FunctionInfo(FunName(addr), AddrStr(addr),
                                          CallerStrs(addr), notes))
         /\ fn_keys' = KeysPut(fn_keys, functions, addr)
    ELSE UNCHANGED <<functions, fn_keys>>

\* the loop body without the test for the code region
MergeOneAnywhere(addr, notes) ==
    IF addr \notin DOMAIN functions
    THEN /\ functions' = Put(functions, addr,
                             FunctionInfo(FunName(addr), AddrStr(addr),
                                          CallerStrs(addr), notes))
         /\ fn_keys' = KeysPut(fn_keys, functions, addr)
    ELSE UNCHANGED <<functions, fn_keys>>

\* the loop body naming a record after the number of records found so far
MergeOneCounterNames(addr, notes) ==
    IF addr \notin DOMAIN functions /\ addr >= code_start
    THEN /\ functions' = Put(functions, addr,
                             FunctionInfo(FunName(Len(fn_keys)), AddrStr(addr),
                                          CallerStrs(addr), notes))
         /\ fn_keys' = KeysPut(fn_keys, functions, addr)
    ELSE UNCHANGED <<functions, fn_keys>>

\* the loop body giving an existing record the callers found for its address
MergeOneRefreshCallers(addr, notes) ==
    IF addr >= code_start
    THEN IF addr \notin DOMAIN functions
         THEN /\ functions' = Put(functions, addr,
                                  FunctionInfo(FunName(addr), AddrStr(addr),
                                               CallerStrs(addr), notes))
              /\ fn_keys' = KeysPut(fn_keys, functions, addr)
         ELSE /\ functions' = [functions EXCEPT ![addr].callers = CallerStrs(addr)]
              /\ fn_keys' = fn_keys
    ELSE UNCHANGED <<functions, fn_keys>>

\* the body of either loop for one address
MergeOne(addr, notes) ==
    IF addr \notin DOMAIN functions /\ addr >= code_start
    THEN /\ functions' = Put(functions, addr,
                             FunctionInfo(FunName(addr), AddrStr(addr),
                                          CallerStrs(addr), notes))
         /\ fn_keys' = KeysPut(fn_keys, functions, addr)
    ELSE UNCHANGED <<functions, fn_keys>>

MergeHigh ==
    /\ pc = "merge_high"
    /\ \E addr \in todo :
          /\ MergeOne(addr, "auto-discovered (prologue+call)")
          /\ todo' = todo \ {addr}
    /\ UNCHANGED refresh_vars
    /\ UNCHANGED <<exe_exists, data, pc, e_cparhdr, e_ip, e_cs, code_start,
                   entry_point, call_sources, prologues, pat, call_targets, i,
                   high_confidence, int_usage, symbols_json, pass, prev_json>>

MergeHighDone ==
    /\ pc = "merge_high" /\ todo = {}
    /\ todo' = call_targets \ high_confidence
    /\ pc' = "merge_medium"
    /\ UNCHANGED refresh_vars
    /\ UNCHANGED <<exe_exists, data, e_cparhdr, e_ip, e_cs, code_start, entry_point,
                   functions, fn_keys, call_sources, prologues, pat, call_targets, i,
                   high_confidence, int_usage, symbols_json, pass, prev_json>>

MergeMedium ==
    /\ pc = "merge_medium"
    /\ \E addr \in todo :
          /\ MergeOne(addr, "auto-discovered (call target)")
          /\ todo' = todo \ {addr}
    /\ UNCHANGED refresh_vars
    /\ UNCHANGED <<exe_exists, data, pc, e_cparhdr, e_ip, e_cs, code_start,
                   entry_point, call_sources, prologues, pat, call_targets, i,
                   high_confidence, int_usage, symbols_json, pass, prev_json>>

\* the interrupt sweep entered while call targets are still to be merged
MergeMediumDoneEarly ==
    /\ pc = "merge_medium"
    /\ int_usage' = EmptyDict /\ i' = 0
    /\ pc' = "interrupts"
    /\ UNCHANGED refresh_vars
    /\ UNCHANGED <<exe_exists, data, e_cparhdr, e_ip, e_cs, code_start, entry_point,
                   functions, fn_keys, call_sources, prologues, pat, call_targets,
                   high_confidence, todo, symbols_json, pass, prev_json>>

MergeMediumDone ==
    /\ pc = "merge_medium" /\ todo = {}
    /\ int_usage' = EmptyDict /\ i' = 0
    /\ pc' = "interrupts"
    /\ UNCHANGED refresh_vars
    /\ UNCHANGED <<exe_exists, data, e_cparhdr, e_ip, e_cs, code_start, entry_point,
                   functions, fn_keys, call_sources, prologues, pat, call_targets,
                   high_confidence, todo, symbols_json, pass, prev_json>>

(***************************************************************************)
(* find_interrupt_handlers: one step per iteration of the sweep            *)
(***************************************************************************)
None == -1

SetMax(S) == CHOOSE x \in S : \A y \in S : y <= x

\* the earliest function start before the address
FindContainingFirst(addr) ==
    LET candidates == {f \in DOMAIN functions : f <= addr}
    IN IF candidates = {} THEN None
       ELSE CHOOSE x \in candidates : \A y \in candidates : x <= y

\* _find_containing_function
FindContainingFunction(addr) ==
    LET candidates == {f \in DOMAIN functions : f <= addr}
    IN IF candidates = {} THEN None ELSE SetMax(candidates)

\* the vector appended without the membership test
AddIntUsageAlways(iu, func_addr, int_str) ==
    Put(iu, func_addr, Append(IF func_addr \in DOMAIN iu THEN iu[func_addr] ELSE <<>>,
                              int_str))

\* int_usage after an INT with vector string int_str inside func_addr
AddIntUsage(iu, func_addr, int_str) ==
    LET have == IF func_addr \in DOMAIN iu THEN iu[func_addr] ELSE <<>>
    IN Put(iu, func_addr, IF Contains(have, int_str) THEN have
                          ELSE Append(have, int_str))

IntFound ==
    /\ pc = "interrupts" /\ i < CodeLen - 1
    /\ CodeAt(i) = INT_IMM8
    /\ LET func_addr == FindContainingFunction(code_start + i)
       IN int_usage' = IF func_addr # None
                       THEN AddIntUsage(int_usage, func_addr, IntStr(CodeAt(i + 1)))
                       ELSE int_usage
    /\ i' = i + 2
    /\ UNCHANGED refresh_vars
    /\ UNCHANGED <<exe_exists, data, pc, e_cparhdr, e_ip, e_cs, code_start,
                   entry_point, functions, fn_keys, call_sources, prologues, pat,
                   call_targets, high_confidence, todo, symbols_json, pass, prev_json>>

IntOther ==
    /\ pc = "interrupts" /\ i < CodeLen - 1
    /\ CodeAt(i) # INT_IMM8
    /\ i' = i + 1
    /\ UNCHANGED refresh_vars
    /\ UNCHANGED <<exe_exists, data, pc, e_cparhdr, e_ip, e_cs, code_start,
                   entry_point, functions, fn_keys, call_sources, prologues, pat,
                   call_targets, high_confidence, todo, int_usage, symbols_json,
                   pass, prev_json>>

IntDone ==
    /\ pc = "interrupts" /\ ~(i < CodeLen - 1)
    /\ pc' = "classify"
    /\ UNCHANGED refresh_vars
    /\ UNCHANGED <<exe_exists, data, e_cparhdr, e_ip, e_cs, code_start, entry_point,
                   functions, fn_keys, call_sources, prologues, pat, call_targets, i,
                   high_confidence, todo, int_usage, symbols_json, pass, prev_json>>

(***************************************************************************)
(* classify_subsystem, and analyze step 5                                  *)
(***************************************************************************)
\* only the first vector of the list decides
classify_first(addr, ints) ==
    IF ints = <<>> THEN "unknown"
    ELSE IF ints[1] = "0x10" THEN "video"
    ELSE IF ints[1] = "0x21" THEN "dos"
    ELSE IF ints[1] = "0x16" THEN "input"
    ELSE IF ints[1] \in {"0x08", "0x1C"} THEN "timer"
    ELSE IF ints[1] = "0x33" THEN "mouse"
    ELSE IF ints[1] \in {"0x80", "0x81"} THEN "sound"
    ELSE "unknown"

classify_subsystem(addr, ints) ==
    IF Contains(ints, "0x10") THEN "video"
    ELSE IF Contains(ints, "0x21") THEN "dos"
    ELSE IF Contains(ints, "0x16") THEN "input"
    ELSE IF Contains(ints, "0x08") \/ Contains(ints, "0x1C") THEN "timer"
    ELSE IF Contains(ints, "0x33") THEN "mouse"
    ELSE IF Contains(ints, "0x80") \/ Contains(ints, "0x81") THEN "sound"
    ELSE "unknown"

ApplyInterrupts ==
    /\ pc = "classify"
    /\ functions' =
          [a \in DOMAIN functions |->
              IF a \in DOMAIN int_usage
              THEN [functions[a] EXCEPT
                       !.int_usage = int_usage[a],
                       !.subsystem = classify_subsystem(a, int_usage[a])]
              ELSE functions[a]]
    /\ pc' = "sizes"
    /\ UNCHANGED refresh_vars
    /\ UNCHANGED <<exe_exists, data, e_cparhdr, e_ip, e_cs, code_start, entry_point,
                   fn_keys, call_sources, prologues, pat, call_targets, i,
                   high_confidence, todo, int_usage, symbols_json, pass, prev_json>>

(***************************************************************************)
(* estimate_function_sizes                                                 *)
(***************************************************************************)
\* the RET opcode itself is not counted
RetOffsetExclusive(code) ==
    LET hits == {j \in 1..Len(code) : code[j] \in RetOpcodes}
    IN IF hits = {} THEN 0 ELSE (CHOOSE j \in hits : \A h \in hits : j <= h) - 1

\* enumerate(code): j + 1 for the first RET opcode, 0 when the loop finds none
RetOffset(code) ==
    LET hits == {j \in 1..Len(code) : code[j] \in RetOpcodes}
    IN IF hits = {} THEN 0 ELSE CHOOSE j \in hits : \A h \in hits : j <= h

\* the window of every function running to the end of the file
SizeAtToFileEnd(sorted_addrs, k) ==
    LET addr == sorted_addrs[k]
        next_func == Len(data)
        ret_offset == RetOffset(Slice(addr, next_func))
    IN IF ret_offset # 0 THEN ret_offset ELSE Min(next_func - addr, MaxSpan)

\* the size the loop body gives the k-th address of sorted_addrs
SizeAt(sorted_addrs, k) ==
    LET addr == sorted_addrs[k]
        next_func == IF k + 1 <= Len(sorted_addrs) THEN sorted_addrs[k + 1]
                     ELSE Len(data)
        ret_offset == RetOffset(Slice(addr, next_func))
    IN IF ret_offset # 0 THEN ret_offset ELSE Min(next_func - addr, MaxSpan)

EstimateSizes ==
    /\ pc = "sizes"
    /\ LET sorted_addrs == SortedSeq(DOMAIN functions)
       IN functions' =
             [a \in DOMAIN functions |->
                 LET k == CHOOSE n \in 1..Len(sorted_addrs) : sorted_addrs[n] = a
                 IN [functions[a] EXCEPT !.size_bytes = SizeAt(sorted_addrs, k)]]
    /\ pc' = "export"
    /\ UNCHANGED refresh_vars
    /\ UNCHANGED <<exe_exists, data, e_cparhdr, e_ip, e_cs, code_start, entry_point,
                   fn_keys, call_sources, prologues, pat, call_targets, i,
                   high_confidence, todo, int_usage, symbols_json, pass, prev_json>>

(***************************************************************************)
(* export_json                                                             *)
(***************************************************************************)
Clock == {0, 1}     \* datetime.now(): the second the export runs in

\* the records in the order the dict holds them
ExportOrderInsertion == fn_keys

\* the order the exported array follows
ExportOrder == SortedSeq(DOMAIN functions)

\* the slice left out: every caller is exported
CallersUncapped(callers) == callers

\* f.callers[:10]
CallersSlice(callers) == Take(callers, MaxCallers)

\* one element of output["functions"]
ExportRecord(f) ==
    [ name |-> f.name, entry_linear |-> f.entry_linear, size_bytes |-> f.size_bytes,
      stack_frame_size |-> f.stack_frame_size, subsystem |-> f.subsystem,
      callers |-> CallersSlice(f.callers), int_usage |-> f.int_usage,
      source_recording_id |-> f.source_recording_id, notes |-> f.notes ]

\* the document but for binary_hash (SHA-256 of the image)
ExportDoc(now) ==
    [ program_name |-> "GP.EXE",
      language |-> "x86:LE:16:Real Mode / default",
      generated_at |-> now,
      functions |-> [k \in 1..Len(ExportOrder) |->
                       ExportRecord(functions[ExportOrder[k]])] ]

\* an export that cuts each record's own callers list to the exported slice
ExportJsonTruncating ==
    /\ pc = "export"
    /\ \E now \in Clock : symbols_json' = <<ExportDoc(now)>>
    /\ functions' = [a \in DOMAIN functions |->
                        [functions[a] EXCEPT !.callers = CallersSlice(@)]]
    /\ pc' = "exit0"
    /\ UNCHANGED refresh_vars
    /\ UNCHANGED <<exe_exists, data, e_cparhdr, e_ip, e_cs, code_start, entry_point,
                   fn_keys, call_sources, prologues, pat, call_targets, i,
                   high_confidence, todo, int_usage, pass, prev_json>>

\* analyzer.export_json(symbols_path), then the summary and return 0
ExportJson ==
    /\ pc = "export"
    /\ \E now \in Clock : symbols_json' = <<ExportDoc(now)>>
    /\ pc' = "exit0"
    /\ UNCHANGED refresh_vars
    /\ UNCHANGED <<exe_exists, data, e_cparhdr, e_ip, e_cs, code_start, entry_point,
                   functions, fn_keys, call_sources, prologues, pat, call_targets, i,
                   high_confidence, todo, int_usage, pass, prev_json>>

(***************************************************************************)
(* A further invocation of main over the same file                         *)
(***************************************************************************)
Rerun ==
    /\ pc \in {"exit0", "exit1", "ValueError", "struct.error"}
    /\ pass < MaxPasses
    /\ pass' = pass + 1
    /\ prev_json' = symbols_json
    /\ pc' = "start"
    /\ e_cparhdr' = 0 /\ e_ip' = 0 /\ e_cs' = 0
    /\ code_start' = 0 /\ entry_point' = 0
    /\ functions' = EmptyDict /\ fn_keys' = <<>>
    /\ call_sources' = EmptyDict
    /\ prologues' = {} /\ pat' = 1
    /\ call_targets' = {} /\ i' = 0
    /\ high_confidence' = {} /\ todo' = {}
    /\ int_usage' = EmptyDict
    /\ UNCHANGED refresh_vars
    /\ UNCHANGED <<exe_exists, data, symbols_json>>

(***************************************************************************)
(* Specifications                                                          *)
(***************************************************************************)
Next ==
    \/ MainMissing \/ ParseBadMagic \/ ParseShort \/ ParseHeader
    \/ AddEntry
    \/ PrologueStep \/ PrologueDone
    \/ CallNear \/ CallFar \/ CallIndirect \/ CallOther \/ CallDone
    \/ MergeHigh \/ MergeHighDone \/ MergeMedium \/ MergeMediumDone
    \/ IntFound \/ IntOther \/ IntDone
    \/ ApplyInterrupts
    \/ EstimateSizes
    \/ ExportJson

Spec == Init /\ [][Next]_vars

NextTwoPass == Next \/ Rerun

SpecTwoPass == Init /\ [][NextTwoPass]_vars

(***************************************************************************)
(* The two scans of analyze, steps 2 and 3, taken in any order and with    *)
(* their steps interleaved: each scan keeps its own cursor (pat, i) and    *)
(* its own result (prologues; call_targets and call_sources)               *)
(***************************************************************************)
\* the call sweep takes over from the prologue scan where it stood
SwitchToCalls ==
    /\ pc = "prologues"
    /\ pc' = "calls"
    /\ UNCHANGED refresh_vars
    /\ UNCHANGED <<exe_exists, data, e_cparhdr, e_ip, e_cs, code_start, entry_point,
                   functions, fn_keys, call_sources, prologues, pat, call_targets, i,
                   high_confidence, todo, int_usage, symbols_json, pass, prev_json>>

\* the prologue scan takes over from the call sweep where it stood
SwitchToPrologues ==
    /\ pc = "calls"
    /\ pc' = "prologues"
    /\ UNCHANGED refresh_vars
    /\ UNCHANGED <<exe_exists, data, e_cparhdr, e_ip, e_cs, code_start, entry_point,
                   functions, fn_keys, call_sources, prologues, pat, call_targets, i,
                   high_confidence, todo, int_usage, symbols_json, pass, prev_json>>

\* both scans have returned; analyze step 4 forms the high-confidence set
ScansJoin ==
    /\ pc \in {"prologues", "calls"}
    /\ pat > Len(PROLOGUE_PATTERNS)
    /\ ~(i < CodeLen - 3)
    /\ high_confidence' = HighConfidence
    /\ todo' = HighConfidence
    /\ pc' = "merge_high"
    /\ UNCHANGED refresh_vars
    /\ UNCHANGED <<exe_exists, data, e_cparhdr, e_ip, e_cs, code_start, entry_point,
                   functions, fn_keys, call_sources, prologues, pat, call_targets, i,
                   int_usage, symbols_json, pass, prev_json>>

NextInterleaved ==
    \/ MainMissing \/ ParseBadMagic \/ ParseShort \/ ParseHeader
    \/ AddEntry
    \/ PrologueStep \/ SwitchToCalls
    \/ CallNear \/ CallFar \/ CallIndirect \/ CallOther \/ SwitchToPrologues
    \/ ScansJoin
    \/ MergeHigh \/ MergeHighDone \/ MergeMedium \/ MergeMediumDone
    \/ IntFound \/ IntOther \/ IntDone
    \/ ApplyInterrupts
    \/ EstimateSizes
    \/ ExportJson

SpecInterleaved == Init /\ [][NextInterleaved]_vars

(***************************************************************************)
(* The refresh pipeline (re/scripts/refresh_artifacts.py): main runs seven *)
(* steps in a try block and writes the run log in its finally clause.      *)
(* A step's duration is kept as the mark "elapsed"; the log's timestamp,   *)
(* the environment handed to a command and the temporary database file of  *)
(* the Binary Ninja step are left out.                                     *)
(***************************************************************************)
\* f"{n}" for n >= 0
RECURSIVE Str(_)
Str(n) == IF n < 10 THEN HexDigits[n + 1]
          ELSE Str(n \div 10) \o HexDigits[(n % 10) + 1]

\* non-zero exit statuses of a command
ExitCodes == {1, 2}

\* what subprocess.run(cmd, check=True) does: returns, raises CalledProcessError
\* for a non-zero exit status, or raises FileNotFoundError for a missing program
Outcomes ==
    {[kind |-> "ok", returncode |-> 0]}
    \cup {[kind |-> "CalledProcessError", returncode |-> rc] : rc \in ExitCodes}
    \cup {[kind |-> "FileNotFoundError", returncode |-> 0]}

\* parse_args: the flags that steer the steps
ArgSets ==
    [ dry_run : BOOLEAN, skip_ghidra : BOOLEAN, skip_binja : BOOLEAN,
      skip_validate : BOOLEAN, capture_run : BOOLEAN, capture_macro : BOOLEAN,
      skip_trace_index : BOOLEAN, skip_coverage : BOOLEAN,
      skip_hlil_publish : BOOLEAN ]

\* main of refresh_artifacts: args parsed, log_steps = []
InitRefresh ==
    /\ exe_exists = FALSE /\ data = <<>>
    /\ pc = "idle"
    /\ e_cparhdr = 0 /\ e_ip = 0 /\ e_cs = 0
    /\ code_start = 0 /\ entry_point = 0
    /\ functions = EmptyDict /\ fn_keys = <<>>
    /\ call_sources = EmptyDict
    /\ prologues = {} /\ pat = 1
    /\ call_targets = {} /\ i = 0
    /\ high_confidence = {} /\ todo = {}
    /\ int_usage = EmptyDict
    /\ symbols_json = <<>>
    /\ pass = 1 /\ prev_json = <<>>
    /\ args \in ArgSets
    /\ stage = "run_capture"
    /\ log_steps = <<>> /\ raised = "" /\ log_files = <<>>

\* run_cmd(cmd, env, dry_run, name, log_steps) with the command's outcome
run_cmd(cmd, dry_run, name, out) ==
    IF dry_run
    THEN /\ log_steps' = Append(log_steps,
                                [name |-> name, command |-> cmd, status |-> "skipped"])
         /\ raised' = ""
    ELSE CASE out.kind = "ok" ->
                 /\ log_steps' = Append(log_steps,
                                        [name |-> name, command |-> cmd,
                                         status |-> "ok", duration_s |-> "elapsed"])
                 /\ raised' = ""
           [] out.kind = "CalledProcessError" ->
                 \* the except clause appends the record, the finally clause
                 \* appends the same record again
                 LET record == [name |-> name, command |-> cmd,
                                status |-> "failed:" \o Str(out.returncode),
                                stderr |-> "None", duration_s |-> "elapsed"]
                 IN /\ log_steps' = Append(Append(log_steps, record), record)
                    /\ raised' = "CalledProcessError"
           [] OTHER ->
                 /\ log_steps' = Append(log_steps,
                                        [name |-> name, command |-> cmd,
                                         status |-> "pending", duration_s |-> "elapsed"])
                 /\ raised' = out.kind

\* a step that is skipped by its flag or else runs one command
SkippableStep(this, skip, name, cmd, next) ==
    /\ stage = this
    /\ IF skip
       THEN /\ log_steps' = Append(log_steps, [name |-> name, status |-> "skipped"])
            /\ raised' = ""
       ELSE \E out \in Outcomes : run_cmd(cmd, args.dry_run, name, out)
    /\ stage' = IF raised' = "" THEN next ELSE "write_log"
    /\ UNCHANGED <<args, log_files>>
    /\ UNCHANGED discover_vars

run_capture ==
    /\ stage = "run_capture"
    /\ IF ~args.capture_run \/ ~args.capture_macro
       THEN /\ log_steps' =
                  IF args.capture_run \/ args.capture_macro
                  THEN Append(log_steps, [name |-> "capture", status |-> "skipped",
                                          reason |-> "missing run or macro"])
                  ELSE log_steps
            /\ raised' = ""
       ELSE \E out \in Outcomes :
               run_cmd(<<"python", "capture_telemetry.py">>, args.dry_run, "capture", out)
    /\ stage' = IF raised' = "" THEN "run_trace_index" ELSE "write_log"
    /\ UNCHANGED <<args, log_files>>
    /\ UNCHANGED discover_vars

run_trace_index ==
    SkippableStep("run_trace_index", args.skip_trace_index, "trace_index",
                  <<"python", "link_traces.py">>, "run_ghidra")

run_ghidra ==
    SkippableStep("run_ghidra", args.skip_ghidra, "ghidra",
                  <<"analyzeHeadless">>, "run_binary_ninja")

run_binary_ninja ==
    SkippableStep("run_binary_ninja", args.skip_binja, "binary_ninja",
                  <<"binaryninja-headless">>, "validate_artifacts")

\* validation passes with or without jsonschema, or raises
ValidateOutcomes == {"ok", "jsonschema unavailable", "Exception"}

validate_artifacts ==
    /\ stage = "validate_artifacts"
    /\ IF args.skip_validate
       THEN /\ log_steps' = Append(log_steps, [name |-> "validate", status |-> "skipped"])
            /\ raised' = ""
       ELSE \E out \in ValidateOutcomes :
               IF out = "Exception"
               THEN /\ log_steps' = Append(log_steps,
                                           [name |-> "validate",
                                            status |-> "failed:" \o "exc"])
                    /\ raised' = "Exception"
               ELSE LET result == IF out = "ok" THEN [status |-> "ok"]
                                  ELSE [status |-> "skipped",
                                        reason |-> "jsonschema unavailable"]
                    IN /\ log_steps' = Append(log_steps,
                                              [name |-> "validate", status |-> "ok",
                                               symbols |-> result, segments |-> result])
                       /\ raised' = ""
    /\ stage' = IF raised' = "" THEN "run_coverage" ELSE "write_log"
    /\ UNCHANGED <<args, log_files>>
    /\ UNCHANGED discover_vars

run_coverage ==
    SkippableStep("run_coverage", args.skip_coverage, "coverage",
                  <<"python", "coverage_report.py">>, "run_hlil_publish")

run_hlil_publish ==
    SkippableStep("run_hlil_publish", args.skip_hlil_publish, "hlil_publish",
                  <<"python", "publish_hlil.py">>, "write_log")

\* the finally clause of main; then main returns, or the exception in flight
\* reaches the handler that exits with status 1
write_log ==
    /\ stage = "write_log"
    /\ log_files' = Append(log_files, [steps |-> log_steps])
    /\ stage' = IF raised = "" THEN "return" ELSE "exit1"
    /\ UNCHANGED <<args, log_steps, raised>>
    /\ UNCHANGED discover_vars

NextRefresh ==
    \/ run_capture \/ run_trace_index \/ run_ghidra \/ run_binary_ninja
    \/ validate_artifacts \/ run_coverage \/ run_hlil_publish
    \/ write_log

SpecRefresh == InitRefresh /\ [][NextRefresh]_vars

(***************************************************************************)
(* Properties                                                              *)
(***************************************************************************)
Finished == pc = "exit0"

\* output["functions"] of the written artifact
Exported == symbols_json[1].functions

\* phases of analyze after step 1
AfterEntry == {"prologues", "calls", "merge_high", "merge_medium", "interrupts",
               "classify", "sizes", "export", "exit0"}

\* indices of the exported records whose entry_linear names address a
ExportedAt(a) == {k \in 1..Len(Exported) : Exported[k].entry_linear = AddrStr(a)}

\* number of call sites recorded for address a
CallSites(a) == IF a \in DOMAIN call_sources THEN Len(call_sources[a]) ELSE 0

\* C1: after analyze and export the catalog holds exactly one record keyed by
\* entry_linear, named "entry" with notes "Program entry point"; from step 1 on
\* that record is neither replaced nor duplicated, also when the entry address
\* is a prologue match or a call target.
C1_EntryRecordKept ==
    /\ pc \in AfterEntry =>
          /\ entry_point \in DOMAIN functions
          /\ functions[entry_point].name = "entry"
          /\ functions[entry_point].notes = "Program entry point"
          /\ functions[entry_point].entry_linear = AddrStr(entry_point)
          /\ Cardinality({k \in 1..Len(fn_keys) : fn_keys[k] = entry_point}) = 1
    /\ Finished =>
          /\ Cardinality(ExportedAt(entry_point)) = 1
          /\ \A k \in ExportedAt(entry_point) :
                /\ Exported[k].name = "entry"
                /\ Exported[k].notes = "Program entry point"

\* C1 witness: an export where the entry address is both a prologue match and
\* a call target inside the code region
C1_Witness ==
    /\ Finished
    /\ entry_point \in prologues /\ entry_point \in call_targets
    /\ entry_point >= code_start
    /\ Len(Exported) >= 2

\* C2: the entry addresses of the exported functions array are strictly
\* ascending, so no two exported records share an address.
C2_ExportAscending ==
    Finished =>
       /\ Len(Exported) = Cardinality(DOMAIN functions)
       /\ \A k \in 1..(Len(Exported) - 1) :
             \E a, b \in DOMAIN functions :
                /\ a < b
                /\ Exported[k].entry_linear = AddrStr(a)
                /\ Exported[k + 1].entry_linear = AddrStr(b)

\* C2 witness: an export of three or more records that were not inserted in
\* ascending order
C2_Witness ==
    /\ Finished
    /\ Len(Exported) >= 3
    /\ fn_keys # SortedSeq(DOMAIN functions)

\* C3 as stated: no address matched only by the prologue scan appears as a
\* record of the exported catalog.
C3_Original ==
    Finished => \A a \in prologues \ call_targets : ExportedAt(a) = {}

\* C3 amended: no address other than entry_linear that is matched only by the
\* prologue scan appears as a record of the exported catalog.
C3_PrologueOnlyDropped ==
    Finished =>
       \A a \in (prologues \ call_targets) \ {entry_point} :
          /\ ExportedAt(a) = {}
          /\ a \notin DOMAIN functions

\* C3 witness: an export where a prologue-only address other than the entry was
\* found, beside a call target that did become a record
C3_Witness ==
    /\ Finished
    /\ (prologues \ call_targets) \ {entry_point} # {}
    /\ Len(Exported) >= 2

\* the header of a file that passed the magic check and holds all its fields
HeaderReadable == exe_exists /\ ~BadMagic /\ Len(data) >= HeaderBytes

\* C4: header parsing fails with a format error, and yields no analyzer,
\* whenever header paragraphs * 16 lies beyond the end of the buffer or
\* CS * 16 + IP lies outside [0, len(image)).
C4_Original ==
    (/\ HeaderReadable
     /\ \/ U16(8) * 16 > Len(data)
        \/ ~InFile(U16(22) * 16 + U16(20)))
    => pc \in {"start", "ValueError"}

\* C5: when the first two bytes are not 'MZ', construction fails with the
\* format error before any scan stage runs and no artifact is written.
C5_BadMagicFails ==
    (exe_exists /\ Take(data, 2) # <<77, 90>>) =>
       /\ pc \in {"start", "ValueError"}
       /\ symbols_json = <<>>
       /\ functions = EmptyDict /\ fn_keys = <<>>
       /\ prologues = {} /\ call_targets = {}
       /\ call_sources = EmptyDict /\ int_usage = EmptyDict

\* C5 witness: a file of header length and more with a wrong magic, rejected
C5_Witness ==
    /\ pc = "ValueError"
    /\ Len(data) > HeaderBytes
    /\ data[1] = 77 /\ data[2] # 90

SetMin(S) == CHOOSE x \in S : \A y \in S : x <= y

\* start of the next function in ascending address order, or the end of file
NextStart(a) ==
    LET later == {b \in DOMAIN functions : b > a}
    IN IF later = {} THEN Len(data) ELSE SetMin(later)

\* offsets of the return-family opcodes inside the window of function a
WindowRets(a) ==
    {o \in a..(NextStart(a) - 1) : o < Len(data) /\ data[o + 1] \in {195, 194, 203, 202}}

\* the size C6 states for function a
StatedSize(a) ==
    IF WindowRets(a) = {} THEN Min(NextStart(a) - a, 65535)
    ELSE SetMin(WindowRets(a)) - a + 1

\* C6: with the window of a function running from its start to the next
\* function's start (or the end of file), size_bytes is min(next start - start,
\* 65535) when the window holds no return-family opcode, else the offset of the
\* first such opcode - start + 1; the entry at 32 of the scenario image, whose
\* first return opcode is at 40, gets size_bytes = 9.
C6_SizeFormula ==
    /\ pc \in {"export", "exit0"} =>
          \A a \in DOMAIN functions : functions[a].size_bytes = StatedSize(a)
    /\ Finished =>
          \A a \in DOMAIN functions :
             \A k \in ExportedAt(a) : Exported[k].size_bytes = StatedSize(a)
    /\ (Finished /\ data = ScenarioImage) =>
          /\ ExportedAt(32) # {}
          /\ \A k \in ExportedAt(32) :
                Exported[k].name = "entry" /\ Exported[k].size_bytes = 9

\* C6 witness: an export with a function cut at a return opcode after its first
\* byte and a function whose window holds none
C6_Witness ==
    /\ Finished
    /\ \E a \in DOMAIN functions :
          WindowRets(a) # {} /\ functions[a].size_bytes > 1
    /\ \E a \in DOMAIN functions :
          WindowRets(a) = {} /\ functions[a].size_bytes > 0

\* C7: every exported size_bytes is a non-negative integer not above 65535.
C7_Original ==
    Finished =>
       \A k \in 1..Len(Exported) :
          Exported[k].size_bytes >= 0 /\ Exported[k].size_bytes <= 65535

\* the first min(10, n) call sites recorded for address a, as exported strings
FirstCallers(a) ==
    [k \in 1..Min(10, CallSites(a)) |-> AddrStr(call_sources[a][k])]

\* the call sites of a target are held in ascending sweep order
SweepOrdered(a) ==
    \A j, k \in 1..CallSites(a) : j < k => call_sources[a][j] < call_sources[a][k]

\* C8 as stated: every exported record's callers array has at most 10 entries
\* and equals the first min(10, n) call sites recorded for its address.
C8_Original ==
    Finished =>
       \A a \in DOMAIN functions :
          \A k \in ExportedAt(a) :
             /\ Len(Exported[k].callers) <= 10
             /\ Exported[k].callers = FirstCallers(a)

\* C8 amended: every exported record's callers array has at most 10 entries;
\* for every record other than the entry record it equals the first min(10, n)
\* call sites recorded for its address, in ascending sweep order; the entry
\* record's callers array is empty.
C8_CallersCapped ==
    Finished =>
       \A a \in DOMAIN functions :
          \A k \in ExportedAt(a) :
             /\ Len(Exported[k].callers) <= 10
             /\ a # entry_point =>
                   Exported[k].callers = FirstCallers(a) /\ SweepOrdered(a)
             /\ a = entry_point => Exported[k].callers = <<>>

\* C8 witness: an exported record, not the entry, with more than 10 call sites
C8_Witness ==
    /\ Finished
    /\ \E a \in DOMAIN functions \ {entry_point} :
          /\ CallSites(a) > 10
          /\ \E k \in ExportedAt(a) : Len(Exported[k].callers) = 10

\* the tag of the fixed priority table for a set of vector strings
PriorityTag(S) ==
    IF "0x10" \in S THEN "video"
    ELSE IF "0x21" \in S THEN "dos"
    ELSE IF "0x16" \in S THEN "input"
    ELSE IF S \cap {"0x08", "0x1C"} # {} THEN "timer"
    ELSE IF "0x33" \in S THEN "mouse"
    ELSE IF S \cap {"0x80", "0x81"} # {} THEN "sound"
    ELSE "unknown"

Range(s) == {s[k] : k \in 1..Len(s)}

\* every reordering of the list s
Reorderings(s) ==
    { [k \in 1..Len(s) |-> s[f[k]]] :
         f \in {g \in [1..Len(s) -> 1..Len(s)] : Range(g) = 1..Len(s)} }

\* C9: classify_subsystem depends only on the set of vectors of int_usage: every
\* reordering of a function's list yields the tag of the fixed priority
\* 0x10 video > 0x21 dos > 0x16 input > 0x08/0x1C timer > 0x33 mouse >
\* 0x80/0x81 sound > unknown, which is the subsystem the record holds.
C9_ClassifyOrderFree ==
    pc \in {"sizes", "export", "exit0"} =>
       \A a \in DOMAIN functions :
          /\ functions[a].subsystem = PriorityTag(Range(functions[a].int_usage))
          /\ \A r \in Reorderings(functions[a].int_usage) :
                classify_subsystem(a, r) = PriorityTag(Range(r))

\* C9 witness: a function that uses 0x21 before 0x10 and is tagged video
C9_Witness ==
    /\ Finished
    /\ \E a \in DOMAIN functions :
          /\ functions[a].int_usage = <<"0x21", "0x10">>
          /\ functions[a].subsystem = "video"

\* C10: two fresh passes over the same image bytes export identical functions
\* arrays (same count, order and fields); only generated_at may differ.
C10_Deterministic ==
    (Finished /\ pass >= 2 /\ prev_json # <<>>) =>
       /\ symbols_json[1].functions = prev_json[1].functions
       /\ symbols_json[1].program_name = prev_json[1].program_name
       /\ symbols_json[1].language = prev_json[1].language

\* C10 witness: a second pass that merged three or more records in another than
\* ascending order and exported at another time than the first
C10_Witness ==
    /\ Finished /\ pass >= 2 /\ prev_json # <<>>
    /\ Len(Exported) >= 3
    /\ fn_keys # SortedSeq(DOMAIN functions)
    /\ symbols_json[1].generated_at # prev_json[1].generated_at

\* positions, relative to code_start, at which a sweep from k meets an INT opcode
RECURSIVE IntHitsFrom(_)
IntHitsFrom(k) ==
    IF ~(k < CodeLen - 1) THEN {}
    ELSE IF CodeAt(k) = 205 THEN {k} \cup IntHitsFrom(k + 2)
    ELSE IntHitsFrom(k + 1)

\* the record an interrupt at relative position k falls to: the largest record
\* address not above it
OwnerOf(k) ==
    {a \in DOMAIN functions :
        a <= code_start + k /\ \A b \in DOMAIN functions : b <= code_start + k => b <= a}

\* the vector strings met inside function a, one per occurrence, in sweep order
VectorsMet(a) ==
    LET at == SortedSeq({k \in IntHitsFrom(0) : a \in OwnerOf(k)})
    IN [n \in 1..Len(at) |-> IntStr(CodeAt(at[n] + 1))]

\* s without the later occurrences of each element
RECURSIVE FirstOccurrences(_)
FirstOccurrences(s) ==
    IF s = <<>> THEN <<>>
    ELSE LET front == FirstOccurrences(SubSeq(s, 1, Len(s) - 1))
         IN IF s[Len(s)] \in Range(front) THEN front ELSE Append(front, s[Len(s)])

NoDuplicates(s) == \A j, k \in 1..Len(s) : j # k => s[j] # s[k]

\* C11: every exported record's int_usage holds no vector string twice and
\* lists the distinct vectors attributed to the function in the order the
\* ascending interrupt sweep first meets them.
C11_IntUsageDistinct ==
    /\ pc \in {"sizes", "export", "exit0"} =>
          \A a \in DOMAIN functions :
             /\ NoDuplicates(functions[a].int_usage)
             /\ functions[a].int_usage = FirstOccurrences(VectorsMet(a))
    /\ Finished =>
          \A a \in DOMAIN functions :
             \A k \in ExportedAt(a) :
                Exported[k].int_usage = FirstOccurrences(VectorsMet(a))

\* C11 witness: an exported function in which a vector occurs twice
C11_Witness ==
    /\ Finished
    /\ \E a \in DOMAIN functions :
          /\ functions[a].int_usage # <<>>
          /\ Len(VectorsMet(a)) > Len(functions[a].int_usage)

\* C12: once the header has parsed, code_start is the 16-bit field at offset 8
\* times 16, and no later stage changes it.
C12_CodeStart ==
    pc \in {"analyze"} \cup AfterEntry =>
       /\ e_cparhdr = data[9] + 256 * data[10]
       /\ code_start = (data[9] + 256 * data[10]) * 16

\* C12 witness: a finished analysis of a file whose header field is 3
C12_Witness ==
    /\ Finished
    /\ data[9] = 3 /\ data[10] = 0
    /\ code_start = 48

\* phases of analyze after the merge loops
AfterMerge == {"interrupts", "classify", "sizes", "export", "exit0"}

\* C13: after merging, the record addresses are entry_linear and every call
\* target at or above code_start: each high-confidence address (prologue match
\* and call target) and each medium-confidence address (call target only)
\* inside the code region has a record, noted by its tier, and call targets
\* below code_start have none.
C13_MergedAddresses ==
    pc \in AfterMerge =>
       /\ DOMAIN functions = {entry_point} \cup {t \in call_targets : t >= code_start}
       /\ high_confidence = prologues \cap call_targets
       /\ \A t \in DOMAIN functions \ {entry_point} :
             functions[t].notes = IF t \in prologues
                                  THEN "auto-discovered (prologue+call)"
                                  ELSE "auto-discovered (call target)"

\* C13 witness: a merge that left out a call target below code_start and made
\* a record for another call target
C13_Witness ==
    /\ pc \in AfterMerge
    /\ \E t \in call_targets : t < code_start /\ t # entry_point
    /\ DOMAIN functions # {entry_point}

\* C14: a bare 0x55 is a prologue candidate only if the byte after it is one of
\* 8B 89 83 56 57 1E 06, at every position of the code region, the last byte of
\* the image included.
C14_Original ==
    pc \in {"calls", "merge_high", "merge_medium"} \cup AfterMerge =>
       \A o \in prologues :
          data[o + 1] = 85 =>
             /\ o + 1 < Len(data)
             /\ data[o + 2] \in {139, 137, 131, 86, 87, 30, 6}

\* the call sweep is about to examine code[i]
CallSweepAt == pc = "calls" /\ i < CodeLen - 3

\* the target C15 states for the direct call opcode at code[k]
StatedTarget(k) ==
    LET imm == CodeAt(k + 1) + 256 * CodeAt(k + 2)
    IN IF CodeAt(k) = 232
       THEN code_start + k + 3 + (((imm + 32768) % 65536) - 32768)
       ELSE (CodeAt(k + 3) + 256 * CodeAt(k + 4)) * 16 + imm

\* the operand of the direct call opcode at code[k] lies inside the file
OperandComplete(k) == IF CodeAt(k) = 232 THEN k + 3 <= CodeLen ELSE k + 5 <= CodeLen

\* this step records the call site s for target t and nothing else
RecordsEdge(t, s) ==
    /\ call_targets' = call_targets \cup {t}
    /\ DOMAIN call_sources' = DOMAIN call_sources \cup {t}
    /\ call_sources'[t] = Append(IF t \in DOMAIN call_sources THEN call_sources[t]
                                 ELSE <<>>, s)
    /\ \A u \in DOMAIN call_sources \ {t} : call_sources'[u] = call_sources[u]

\* C15: for every direct call opcode the sweep examines at absolute offset s the
\* candidate target is s + 3 + signed16(imm) for a near call and
\* segment * 16 + offset for a far call; it is recorded if and only if
\* 0 <= target < len(image), and an out-of-range target is dropped without an
\* error (a far call whose operand runs past the file records nothing).
C15_CallTargets ==
    [][ (CallSweepAt /\ CodeAt(i) \in {232, 154}) =>
           /\ pc' = "calls"
           /\ IF /\ OperandComplete(i)
                 /\ 0 <= StatedTarget(i) /\ StatedTarget(i) < Len(data)
              THEN RecordsEdge(StatedTarget(i), code_start + i)
              ELSE UNCHANGED <<call_targets, call_sources>> ]_vars

\* C15 witness: the sweep has passed a far call to FFFF:000F and recorded nothing
C15_Witness ==
    /\ pc = "calls" /\ i = 5
    /\ CodeAt(0) = 154 /\ CodeLen >= 5
    /\ StatedTarget(0) >= Len(data)
    /\ call_targets = {} /\ call_sources = EmptyDict

\* C16: the sweep moves on by 3 after a near call and by 5 after a far call,
\* accepted or not, and by 1 after an indirect-call opcode or any other byte; an
\* indirect-call opcode adds no target and no call edge.
C16_SweepAdvance ==
    [][ CallSweepAt =>
           /\ i' = i + (CASE CodeAt(i) = 232 -> 3
                          [] CodeAt(i) = 154 -> 5
                          [] OTHER -> 1)
           /\ CodeAt(i) \notin {232, 154} =>
                 UNCHANGED <<call_targets, call_sources>> ]_vars

\* C16 witness: the sweep has passed a near call with a target before the file
\* by 3 bytes, behind an indirect-call opcode it passed by 1
C16_Witness ==
    /\ pc = "calls" /\ i = 4
    /\ CodeAt(0) = 255 /\ CodeAt(1) = 232
    /\ StatedTarget(1) < 0
    /\ call_targets = {}

\* positions, relative to code_start, that a call sweep from k examines
RECURSIVE CallSweepFrom(_)
CallSweepFrom(k) ==
    IF ~(k < CodeLen - 3) THEN {}
    ELSE {k} \cup CallSweepFrom(k + (CASE CodeAt(k) = 232 -> 3
                                       [] CodeAt(k) = 154 -> 5
                                       [] OTHER -> 1))

\* the examined direct calls whose target lies inside the file
AcceptedCalls ==
    {k \in CallSweepFrom(0) :
        /\ CodeAt(k) \in {232, 154}
        /\ OperandComplete(k)
        /\ 0 <= StatedTarget(k) /\ StatedTarget(k) < Len(data)}

\* absolute offsets of the call opcodes that resolved to t
ResolvedTo(t) == {code_start + k : k \in {j \in AcceptedCalls : StatedTarget(j) = t}}

\* phases of analyze after the call sweep
AfterCalls == {"merge_high", "merge_medium"} \cup AfterMerge

\* C17: after the call sweep the keys of the call-edge map are the call-target
\* set, and each target's list holds exactly the absolute offsets of the call
\* opcodes that resolved to it, one entry per call site, in ascending sweep
\* order and without a cap on its length.
C17_CallEdges ==
    /\ DOMAIN call_sources = call_targets
    /\ pc \in AfterCalls =>
          /\ call_targets = {StatedTarget(k) : k \in AcceptedCalls}
          /\ \A t \in call_targets :
                call_sources[t] = SortedSeq(ResolvedTo(t))

\* C17 witness: the sweep has ended with more than 10 call sites for one target
C17_Witness ==
    /\ pc = "merge_high"
    /\ \E t \in call_targets :
          Len(call_sources[t]) > 10 /\ Cardinality(ResolvedTo(t)) = Len(call_sources[t])

\* C18: an INT opcode the interrupt sweep meets at absolute offset o is
\* attributed to the record with the largest entry address <= o among all
\* records, whatever that function's estimated end; with no record address <= o
\* the occurrence changes nothing.
C18_NearestPreceding ==
    [][ (pc = "interrupts" /\ i < CodeLen - 1 /\ CodeAt(i) = 205) =>
           LET below == {f \in DOMAIN functions : f <= code_start + i}
               v == IntStr(CodeAt(i + 1))
           IN /\ functions' = functions
              /\ IF below = {} THEN int_usage' = int_usage
                 ELSE \E f \in below :
                         /\ \A g \in below : g <= f
                         /\ DOMAIN int_usage' = DOMAIN int_usage \cup {f}
                         /\ Range(int_usage'[f]) =
                               {v} \cup (IF f \in DOMAIN int_usage
                                         THEN Range(int_usage[f]) ELSE {})
                         /\ \A g \in DOMAIN int_usage \ {f} :
                               int_usage'[g] = int_usage[g] ]_vars

\* C18 witness: with the entry at 35 and a return at 35, the interrupt at 32 was
\* ignored and the interrupt at 36 went to the entry record
C18_Witness ==
    /\ pc = "interrupts" /\ i = 6
    /\ data = GapImage
    /\ DOMAIN functions = {35}
    /\ DOMAIN int_usage = {35} /\ int_usage[35] = <<"0x10">>

\* the stages of analyze and main that follow the merge loops
LateStages == {"interrupts", "classify", "sizes", "export"}

\* both merge loops have visited every candidate
MergeComplete ==
    /\ todo = {}
    /\ \A t \in call_targets : t >= code_start => t \in DOMAIN functions

\* C19: the stages are strict sequential phases: the interrupt sweep is entered
\* only from the end of the second merge loop and size estimation only after
\* the interrupt stage, both with every candidate merged, and from the start of
\* interrupt attribution through export no record address is added or deleted.
C19_Phases ==
    /\ [](pc \in LateStages => MergeComplete)
    /\ [][ /\ (pc' = "interrupts" /\ pc # "interrupts") => pc = "merge_medium"
           /\ (pc' = "sizes" /\ pc # "sizes") => pc = "classify"
           /\ pc \in LateStages =>
                 /\ DOMAIN functions' = DOMAIN functions
                 /\ fn_keys' = fn_keys
                 /\ pc' \in LateStages \cup {"exit0"} ]_vars

\* C19 witness: size estimation is about to run over three or more records, one
\* of them a merged call target, with interrupts attributed
C19_Witness ==
    /\ pc = "sizes"
    /\ Cardinality(DOMAIN functions) >= 3
    /\ \E t \in call_targets : t \in DOMAIN functions /\ t # entry_point
    /\ DOMAIN int_usage # {}

\* a prologue starts at code[j], read off the bytes
PrologueAt(j) ==
    \/ CodeAt(j) = 200
    \/ /\ CodeAt(j) = 85
       /\ \/ ~(j + 1 < CodeLen)
          \/ CodeAt(j + 1) \in {139, 137, 131, 86, 87, 30, 6}
    \/ /\ CodeAt(j) = 85 /\ j + 2 < CodeLen
       /\ <<CodeAt(j + 1), CodeAt(j + 2)>> \in {<<139, 236>>, <<137, 229>>, <<139, 229>>}

\* the prologue set of the image
ImagePrologues == {code_start + j : j \in {k \in 0..(CodeLen - 1) : PrologueAt(k)}}

\* the call-target set of the image
ImageTargets == {StatedTarget(k) : k \in AcceptedCalls}

\* the merged record of address t, as the image alone determines it
ImageRecord(t) ==
    IF t = entry_point
    THEN FunctionInfo("entry", AddrStr(entry_point), <<>>, "Program entry point")
    ELSE LET sites == SortedSeq(ResolvedTo(t))
         IN FunctionInfo(FunName(t), AddrStr(t),
                         [k \in 1..Len(sites) |-> AddrStr(sites[k])],
                         IF t \in ImagePrologues
                         THEN "auto-discovered (prologue+call)"
                         ELSE "auto-discovered (call target)")

\* both scans have steps behind them and steps ahead of them
ScansOverlap ==
    /\ pc \in {"prologues", "calls"}
    /\ 1 < pat /\ pat <= Len(PROLOGUE_PATTERNS)
    /\ 0 < i /\ i < CodeLen - 3

\* C20: the prologue scan and the call-target scan are independent: in either
\* order, or with their steps interleaved, they end with the prologue set, the
\* call-target set and the call-edge map that the image alone determines, and
\* the merge loops then build the catalog that the image alone determines.
C20_ScansIndependent ==
    /\ pc \in AfterCalls =>
          /\ prologues = ImagePrologues
          /\ call_targets = ImageTargets
          /\ DOMAIN call_sources = ImageTargets
          /\ \A t \in ImageTargets : call_sources[t] = SortedSeq(ResolvedTo(t))
    /\ pc \in AfterMerge =>
          /\ DOMAIN functions = {entry_point} \cup {t \in ImageTargets : t >= code_start}
          /\ \A t \in DOMAIN functions :
                /\ functions[t].name = ImageRecord(t).name
                /\ functions[t].entry_linear = ImageRecord(t).entry_linear
                /\ functions[t].callers = ImageRecord(t).callers
                /\ functions[t].notes = ImageRecord(t).notes
    /\ pc = "interrupts" => \A t \in DOMAIN functions : functions[t] = ImageRecord(t)

\* C20 witness: both scans are under way: the prologue scan has found a
\* prologue and has patterns left, the call sweep has found some of the
\* image's call targets and has others ahead
C20_Witness ==
    /\ ScansOverlap
    /\ prologues # {}
    /\ call_targets # {} /\ call_targets # ImageTargets

\* C21: export_json leaves every record unchanged: the step from the export
\* stage to the exit keeps each record's name, size_bytes, subsystem, callers
\* (entries beyond the tenth included), int_usage and notes, and the records'
\* keys and their order, while the artifact is written.
C21_ExportKeepsRecords ==
    [][ pc = "export" =>
           /\ pc' = "exit0"
           /\ Len(symbols_json') = 1
           /\ fn_keys' = fn_keys
           /\ DOMAIN functions' = DOMAIN functions
           /\ \A a \in DOMAIN functions :
                 /\ functions'[a].name = functions[a].name
                 /\ functions'[a].size_bytes = functions[a].size_bytes
                 /\ functions'[a].subsystem = functions[a].subsystem
                 /\ functions'[a].callers = functions[a].callers
                 /\ functions'[a].int_usage = functions[a].int_usage
                 /\ functions'[a].notes = functions[a].notes
                 /\ functions'[a] = functions[a] ]_vars

\* C21 witness: after the export a record still holds more than 10 callers
\* while its exported element holds 10
C21_Witness ==
    /\ Finished
    /\ \E a \in DOMAIN functions :
          /\ Len(functions[a].callers) > 10
          /\ \A k \in ExportedAt(a) : Len(Exported[k].callers) = 10
          /\ functions[a].size_bytes > 0

\* C22: the entry record's callers list is empty from its creation on and in
\* the exported catalog, also when accepted call sites resolve to the entry
\* address.
C22_EntryCallersEmpty ==
    /\ pc \in AfterEntry =>
          /\ entry_point \in DOMAIN functions
          /\ functions[entry_point].callers = <<>>
    /\ Finished =>
          /\ ExportedAt(entry_point) # {}
          /\ \A k \in ExportedAt(entry_point) :
                Exported[k].name = "entry" /\ Exported[k].callers = <<>>

\* C22 witness: an export where call sites resolved to the entry address and
\* the entry address passed through a merge loop
C22_Witness ==
    /\ Finished
    /\ entry_point \in call_targets
    /\ entry_point >= code_start
    /\ CallSites(entry_point) >= 2
    /\ \E k \in ExportedAt(entry_point) : Exported[k].callers = <<>>

\* the records that start after address a
LaterRecords(a) == {b \in DOMAIN functions : b > a}

\* C23: estimated extents never overlap: once sizes are estimated, every record
\* with a later record ends (start + size_bytes) at or before the start of the
\* next record in ascending address order, and the last record, when it starts
\* inside the image, ends at or before len(image); the exported sizes agree.
C23_ExtentsDisjoint ==
    /\ pc \in {"export", "exit0"} =>
          \A a \in DOMAIN functions :
             /\ LaterRecords(a) # {} =>
                   \A b \in LaterRecords(a) : a + functions[a].size_bytes <= b
             /\ (LaterRecords(a) = {} /\ a < Len(data)) =>
                   a + functions[a].size_bytes <= Len(data)
    /\ Finished =>
          \A a \in DOMAIN functions :
             \A k \in ExportedAt(a) : Exported[k].size_bytes = functions[a].size_bytes

\* C23 witness: an export of three or more records where one record runs up to
\* the start of the next, another is cut short by a return opcode, and the last
\* record starts inside the image
C23_Witness ==
    /\ Finished
    /\ Cardinality(DOMAIN functions) >= 3
    /\ \E a \in DOMAIN functions :
          /\ LaterRecords(a) # {}
          /\ a + functions[a].size_bytes = SetMin(LaterRecords(a))
    /\ \E a \in DOMAIN functions :
          /\ LaterRecords(a) # {}
          /\ a + functions[a].size_bytes < SetMin(LaterRecords(a))
    /\ \E a \in DOMAIN functions :
          LaterRecords(a) = {} /\ a < Len(data) /\ functions[a].size_bytes > 0

\* positions of code that the iteration of the call sweep at position k reads:
\* the opcode, and the operand once its length test has passed
BytesRead(k) ==
    {k} \cup (IF CodeAt(k) = 232 /\ k + 3 <= CodeLen THEN {k + 1, k + 2} ELSE {})
        \cup (IF CodeAt(k) = 154 /\ k + 5 <= CodeLen THEN (k + 1)..(k + 4) ELSE {})

\* C24: the call sweep examines only positions i < len(code) - 3 and reads no
\* byte at or beyond len(code); so every recorded call site lies before the
\* last three bytes of the code, and a near call that occupies exactly the last
\* three bytes is not recorded as a call edge.
C24_SweepBound ==
    /\ [][ (pc = "calls" /\ pc' = "calls") =>
              /\ i < CodeLen - 3
              /\ i' > i
              /\ \A b \in BytesRead(i) : 0 <= b /\ b < CodeLen ]_vars
    /\ [][ (call_sources' # call_sources \/ call_targets' # call_targets) =>
              (pc = "calls" /\ i < CodeLen - 3) ]_vars
    /\ [](\A t \in DOMAIN call_sources :
             \A k \in 1..Len(call_sources[t]) :
                call_sources[t][k] < code_start + CodeLen - 3)

\* C24 witness: the sweep has ended at a near call in the last three bytes
\* whose target is inside the file, and that target is no call target
C24_Witness ==
    /\ pc = "merge_high"
    /\ CodeLen >= 6
    /\ i = CodeLen - 3
    /\ CodeAt(i) = 232
    /\ 0 <= StatedTarget(i) /\ StatedTarget(i) < Len(data)
    /\ StatedTarget(i) \notin call_targets
    /\ call_targets # {}

\* the step at the given stage calls run_cmd
CallsRunCmd(st) ==
    CASE st = "run_capture" -> args.capture_run /\ args.capture_macro
      [] st = "run_trace_index" -> ~args.skip_trace_index
      [] st = "run_ghidra" -> ~args.skip_ghidra
      [] st = "run_binary_ninja" -> ~args.skip_binja
      [] st = "run_coverage" -> ~args.skip_coverage
      [] st = "run_hlil_publish" -> ~args.skip_hlil_publish
      [] OTHER -> FALSE

\* the name a step logs under
StepName(st) ==
    CASE st = "run_capture" -> "capture"
      [] st = "run_trace_index" -> "trace_index"
      [] st = "run_ghidra" -> "ghidra"
      [] st = "run_binary_ninja" -> "binary_ninja"
      [] st = "run_coverage" -> "coverage"
      [] st = "run_hlil_publish" -> "hlil_publish"
      [] OTHER -> "validate"

\* the exception of a command that exited with a non-zero status
CommandFailed == "CalledProcessError"

\* C25: every call of run_cmd appends exactly one record for its step to the
\* run log, whether the step is skipped by dry-run, succeeds, or fails with a
\* non-zero exit; after a failure no later step runs and the log is still
\* written once.
C25_Original ==
    /\ [][ (CallsRunCmd(stage) /\ raised' \in {"", CommandFailed}) =>
              /\ Len(log_steps') = Len(log_steps) + 1
              /\ log_steps'[Len(log_steps')].name = StepName(stage) ]_vars
    /\ [][ raised # "" => (stage = "write_log" /\ log_steps' = log_steps) ]_vars
    /\ [](Len(log_files) <= 1)
    /\ [](stage \in {"return", "exit1"} => Len(log_files) = 1)
====
